---- MODULE Spec2Model ----
(***************************************************************************)
(* Collector configuration cache and routing of the Lambda OTLP forwarder  *)
(* (src/functions/forwarder/src/collectors.rs).                            *)
(*                                                                         *)
(* Strings are sequences of tokens.  A URL string is an origin token       *)
(* (scheme and authority, e.g. "https://h") followed by path tokens        *)
(* ("/" and segment letters), then optionally a query token and a          *)
(* fragment token.  A regular expression is a sequence of pattern tokens:  *)
(* literals, ".*" and "[" (an unclosed class, which does not compile).     *)
(***************************************************************************)
EXTENDS Integers, Sequences, FiniteSets, TLC

\* ------------------------------------------------------------------ bounds
\* Number of concurrent invocations sharing the process.
NumProcs == 2
\* Number of clock advances in one behaviour.
MaxTicks == 2

\* ------------------------------------------------------- program constants
\* unwrap_or(300): the TTL used when COLLECTORS_CACHE_TTL_SECONDS is unusable.
DefaultTtlSeconds == 300

\* ---------------------------------------------------------------- options
None == [some |-> FALSE, v |-> <<>>]
Some(x) == [some |-> TRUE, v |-> x]

Ok(x) == [ok |-> TRUE, v |-> x, err |-> ""]
Err(e) == [ok |-> FALSE, v |-> <<>>, err |-> e]

\* ---------------------------------------------------------------- strings
\* str.ends_with(c)
EndsWith(s, c) == Len(s) > 0 /\ s[Len(s)] = c

\* str.trim_start_matches(c): every leading occurrence of c is removed.
RECURSIVE TrimStartMatches(_, _)
TrimStartMatches(s, c) ==
  IF Len(s) > 0 /\ s[1] = c THEN TrimStartMatches(Tail(s), c) ELSE s

\* ------------------------------------------------------------------- URLs
OriginTokens == {"https://h", "https://o", "http://o:8080"}
QueryTokens == {"?q", "?r"}
FragmentTokens == {"#f"}

\* Index of the first token of s, at or after i, that belongs to S
\* (Len(s) + 1 when there is none).
RECURSIVE FirstIn(_, _, _)
FirstIn(s, S, i) ==
  IF i > Len(s) THEN Len(s) + 1
  ELSE IF s[i] \in S THEN i
  ELSE FirstIn(s, S, i + 1)

\* Url::parse: an absolute URL with a special scheme.  A string that does not
\* start with scheme and authority is a relative URL without a base: an error.
\* Letters directly after the origin token belong to the host.  The path of a
\* special URL is never empty: an empty path is normalised to "/".
UrlParse(s) ==
  IF Len(s) = 0 \/ s[1] \notin OriginTokens THEN Err("RelativeUrlWithoutBase")
  ELSE
    LET pathStart == FirstIn(s, {"/"} \cup QueryTokens \cup FragmentTokens, 2)
        queryStart == FirstIn(s, QueryTokens \cup FragmentTokens, pathStart)
        fragStart == FirstIn(s, FragmentTokens, queryStart)
        rawPath == SubSeq(s, pathStart, queryStart - 1)
    IN Ok([authority |-> SubSeq(s, 1, pathStart - 1),
           path |-> IF rawPath = <<>> THEN <<"/">> ELSE rawPath,
           query |-> SubSeq(s, queryStart, fragStart - 1),
           fragment |-> SubSeq(s, fragStart, Len(s))])

\* Url::set_path on a special URL: the new path always starts with "/";
\* query and fragment are kept (take_after_path / restore_after_path).
UrlSetPath(u, p) ==
  [u EXCEPT !.path = IF Len(p) > 0 /\ p[1] = "/" THEN p ELSE <<"/">> \o p]

\* Url::to_string: the serialization.
UrlToString(u) == u.authority \o u.path \o u.query \o u.fragment

\* ---------------------------------------------------- regular expressions
\* Regex::new: a pattern with an unclosed character class does not compile.
RegexNew(p) ==
  IF \E i \in 1..Len(p) : p[i] = "[" THEN Err("regex parse error") ELSE Ok(p)

\* The pattern matches a prefix of s.
RECURSIVE MatchHere(_, _)
MatchHere(p, s) ==
  IF Len(p) = 0 THEN TRUE
  ELSE IF p[1] = ".*"
    THEN MatchHere(Tail(p), s) \/ (Len(s) > 0 /\ MatchHere(p, Tail(s)))
  ELSE Len(s) > 0 /\ s[1] = p[1] /\ MatchHere(Tail(p), Tail(s))

\* Regex::is_match: an unanchored search.
RECURSIVE IsMatch(_, _)
IsMatch(p, s) ==
  MatchHere(p, s) \/ (Len(s) > 0 /\ IsMatch(p, Tail(s)))

\* ------------------------------------------------------------ JSON values
JAbsent == [t |-> "absent", v |-> <<>>]
JNull == [t |-> "null", v |-> <<>>]
JNum == [t |-> "num", v |-> <<>>]
JStr(s) == [t |-> "str", v |-> s]

\* The text of one secret: either not JSON at all, or a JSON object with the
\* four keys the schema knows (other keys are ignored by serde).
RawJson(n, e, a, x) ==
  [valid |-> TRUE, name |-> n, endpoint |-> e, auth |-> a, exclude |-> x]
NotJson ==
  [valid |-> FALSE, name |-> JAbsent, endpoint |-> JAbsent, auth |-> JAbsent,
   exclude |-> JAbsent]

\* -------------------------------------------------------------- Collector
\* struct Collector { name, endpoint, auth: Option<String>, exclude: Option<Regex> }
Collector(n, e, a, x) == [name |-> n, endpoint |-> e, auth |-> a, exclude |-> x]

\* An empty string is normalized to None.
DeserializeOptionStringNormalized(j) ==
  IF j.t \in {"absent", "null"} THEN Ok(None)
  ELSE IF j.t = "str" THEN (IF j.v = <<>> THEN Ok(None) ELSE Ok(Some(j.v)))
  ELSE Err("invalid type")

\* Option::<String>::deserialize
DeserializeOptionString(j) ==
  IF j.t \in {"absent", "null"} THEN Ok(None)
  ELSE IF j.t = "str" THEN Ok(Some(j.v))
  ELSE Err("invalid type")

\* String::deserialize (a required field)
DeserializeString(j) ==
  IF j.t = "str" THEN Ok(j.v)
  ELSE IF j.t = "absent" THEN Err("missing field")
  ELSE Err("invalid type")

\* A pattern that does not compile is an error of the whole definition.
deserialize_regex_strict(j) ==
  LET pattern == DeserializeOptionString(j)
  IN IF ~pattern.ok THEN pattern
     ELSE IF ~pattern.v.some THEN Ok(None)
     ELSE IF RegexNew(pattern.v.v).ok THEN Ok(Some(RegexNew(pattern.v.v).v))
     ELSE Err("invalid regex")

\* deserialize_regex, with #[serde(default)]: a missing key is None; a pattern
\* that does not compile is warned about and becomes None.
deserialize_regex(j) ==
  LET pattern == DeserializeOptionString(j)
  IN IF ~pattern.ok THEN pattern
     ELSE IF ~pattern.v.some THEN Ok(None)
     ELSE IF RegexNew(pattern.v.v).ok THEN Ok(Some(RegexNew(pattern.v.v).v))
     ELSE Ok(None)

\* serde_json::from_str::<Collector>
DeserializeCollector(raw) ==
  IF ~raw.valid THEN Err("expected value")
  ELSE
    LET n == DeserializeString(raw.name)
        e == DeserializeString(raw.endpoint)
        a == DeserializeOptionString(raw.auth)
        x == deserialize_regex(raw.exclude)
    IN IF ~n.ok THEN Err(n.err)
       ELSE IF ~e.ok THEN Err(e.err)
       ELSE IF ~a.ok THEN Err(a.err)
       ELSE IF ~x.ok THEN Err(x.err)
       ELSE Ok(Collector(n.v, e.v, a.v, x.v))

\* The exclusion test inverted.
should_exclude_inverted(collector, log_group) ==
  IF collector.exclude.some
  THEN ~IsMatch(collector.exclude.v, log_group)
  ELSE FALSE

\* Collector::should_exclude
should_exclude(collector, log_group) ==
  IF collector.exclude.some
  THEN IsMatch(collector.exclude.v, log_group)
  ELSE FALSE

\* The base path is used as it is, without the trailing slash.
construct_signal_endpoint_noslash(collector, original_endpoint) ==
  LET orig == UrlParse(original_endpoint)
      base0 == UrlParse(collector.endpoint)
  IN IF ~orig.ok THEN Err("Invalid original endpoint URL")
     ELSE IF ~base0.ok THEN Err("Invalid collector base endpoint")
     ELSE
       LET signal_path == TrimStartMatches(orig.v.path, "/")
           base2 == UrlSetPath(base0.v, base0.v.path \o signal_path)
       IN Ok(UrlToString(base2))

\* The query of the original endpoint is carried over to the destination.
construct_signal_endpoint_origquery(collector, original_endpoint) ==
  LET orig == UrlParse(original_endpoint)
      base0 == UrlParse(collector.endpoint)
  IN IF ~orig.ok THEN Err("Invalid original endpoint URL")
     ELSE IF ~base0.ok THEN Err("Invalid collector base endpoint")
     ELSE
       LET base1 ==
             IF base0.v.path # <<>> /\ ~EndsWith(base0.v.path, "/")
             THEN UrlSetPath(base0.v, base0.v.path \o <<"/">>)
             ELSE base0.v
           signal_path == TrimStartMatches(orig.v.path, "/")
           base2 == UrlSetPath(base1, base1.path \o signal_path)
       IN Ok(UrlToString([base2 EXCEPT !.query = orig.v.query]))

\* Collector::construct_signal_endpoint
construct_signal_endpoint(collector, original_endpoint) ==
  LET orig == UrlParse(original_endpoint)
      base0 == UrlParse(collector.endpoint)
  IN IF ~orig.ok THEN Err("Invalid original endpoint URL")
     ELSE IF ~base0.ok THEN Err("Invalid collector base endpoint")
     ELSE
       LET base1 ==
             IF base0.v.path # <<>> /\ ~EndsWith(base0.v.path, "/")
             THEN UrlSetPath(base0.v, base0.v.path \o <<"/">>)
             ELSE base0.v
           signal_path == TrimStartMatches(orig.v.path, "/")
           base2 == UrlSetPath(base1, base1.path \o signal_path)
       IN Ok(UrlToString(base2))

\* --------------------------------------------------- get_signal_endpoints
\* A collector whose endpoint cannot be constructed is left out.
NextDestinationSkip(collector, original_endpoint, source) ==
  IF should_exclude(collector, source)
  THEN [kind |-> "skip", v |-> <<>>, err |-> ""]
  ELSE LET endpoint == construct_signal_endpoint(collector, original_endpoint)
       IN IF endpoint.ok
          THEN [kind |-> "push", err |-> "",
                v |-> <<Collector(collector.name, endpoint.v, collector.auth,
                                  collector.exclude)>>]
          ELSE [kind |-> "skip", v |-> <<>>, err |-> ""]

\* What the iterator chain does with one collector: the filter skips an
\* excluded one; the map closure yields the destination or the error of
\* construct_signal_endpoint.
NextDestination(collector, original_endpoint, source) ==
  IF should_exclude(collector, source)
  THEN [kind |-> "skip", v |-> <<>>, err |-> ""]
  ELSE LET endpoint == construct_signal_endpoint(collector, original_endpoint)
       IN IF endpoint.ok
          THEN [kind |-> "push", err |-> "",
                v |-> <<Collector(collector.name, endpoint.v, collector.auth,
                                  collector.exclude)>>]
          ELSE [kind |-> "fail", v |-> <<>>, err |-> endpoint.err]

\* The whole iterator chain over the collectors from index i on.
RECURSIVE CollectDestinations(_, _, _, _, _)
CollectDestinations(registry, i, original_endpoint, source, out) ==
  IF i > Len(registry) THEN Ok(out)
  ELSE LET d == NextDestination(registry[i], original_endpoint, source)
       IN IF d.kind = "fail" THEN Err(d.err)
          ELSE CollectDestinations(registry, i + 1, original_endpoint, source,
                                   out \o d.v)

\* Collectors::get_signal_endpoints on an initialized cache holding `registry`.
get_signal_endpoints(registry, original_endpoint, source) ==
  CollectDestinations(registry, 1, original_endpoint, source, <<>>)

\* ------------------------------------------------------- fetch_collectors
\* One entry of response.secret_values(): secret_string() is None for a
\* binary secret.
Secret(raw) == [secret_string |-> Some(raw)]
BinarySecret == [secret_string |-> None]

\* BatchGetSecretValue: the call fails, or returns per-item errors next to
\* the secret values.
Response(nerrors, values) ==
  [call_ok |-> TRUE, errors |-> nerrors, secret_values |-> values]
CallFailed == [call_ok |-> FALSE, errors |-> 0, secret_values |-> <<>>]

\* The loop over response.secret_values(), from index i with the collectors
\* pushed so far; it stops with an error at the first secret that fails to parse.
RECURSIVE ParseSecretsAbort(_, _, _)
ParseSecretsAbort(values, i, collectors) ==
  IF i > Len(values) THEN collectors
  ELSE IF ~values[i].secret_string.some
    THEN ParseSecretsAbort(values, i + 1, collectors)
  ELSE LET c == DeserializeCollector(values[i].secret_string.v)
       IN IF c.ok THEN ParseSecretsAbort(values, i + 1, Append(collectors, c.v))
          ELSE <<>>

\* The loop over response.secret_values(), from index i with the collectors
\* pushed so far.
RECURSIVE ParseSecrets(_, _, _)
ParseSecrets(values, i, collectors) ==
  IF i > Len(values) THEN collectors
  ELSE IF ~values[i].secret_string.some
    THEN ParseSecrets(values, i + 1, collectors)
  ELSE LET c == DeserializeCollector(values[i].secret_string.v)
       IN IF c.ok THEN ParseSecrets(values, i + 1, Append(collectors, c.v))
          ELSE ParseSecrets(values, i + 1, collectors)

\* fetch_collectors without the final is_empty check.
fetch_collectors_noemptycheck(prefix, response) ==
  IF ~prefix.some THEN Err("COLLECTORS_SECRETS_KEY_PREFIX must be set")
  ELSE IF ~response.call_ok THEN Err("BatchGetSecretValue failed")
  ELSE IF response.errors > 0 /\ response.secret_values = <<>>
    THEN Err("Failed to fetch any secrets. Check the logs for details.")
  ELSE Ok(ParseSecrets(response.secret_values, 1, <<>>))

\* fetch_collectors: prefix is env::var("COLLECTORS_SECRETS_KEY_PREFIX"),
\* response the outcome of batch_get_secret_value().
fetch_collectors(prefix, response) ==
  IF ~prefix.some THEN Err("COLLECTORS_SECRETS_KEY_PREFIX must be set")
  ELSE IF ~response.call_ok THEN Err("BatchGetSecretValue failed")
  ELSE IF response.errors > 0 /\ response.secret_values = <<>>
    THEN Err("Failed to fetch any secrets. Check the logs for details.")
  ELSE
    LET collectors == ParseSecrets(response.secret_values, 1, <<>>)
    IN IF collectors = <<>> THEN Err("No valid collectors found")
       ELSE Ok(collectors)

\* -------------------------------------------------------- CollectorsCache
\* v.parse::<u64>() on the text of COLLECTORS_CACHE_TTL_SECONDS.
DigitValue(d) ==
  CASE d = "0" -> 0 [] d = "1" -> 1 [] d = "2" -> 2 [] d = "3" -> 3
    [] d = "4" -> 4 [] d = "5" -> 5 [] d = "6" -> 6 [] d = "7" -> 7
    [] d = "8" -> 8 [] d = "9" -> 9 [] OTHER -> -1

RECURSIVE ParseDigits(_, _)
ParseDigits(s, acc) ==
  IF Len(s) = 0 THEN Ok(acc)
  ELSE IF DigitValue(s[1]) < 0 THEN Err("invalid digit found in string")
  ELSE ParseDigits(Tail(s), acc * 10 + DigitValue(s[1]))

ParseU64(s) ==
  IF Len(s) = 0 THEN Err("cannot parse integer from empty string")
  ELSE ParseDigits(s, 0)

\* CollectorsCache::new: ttl from the environment or 300, last_refresh now.
CollectorsCache_new(collectors, ttl_env, instant_now) ==
  LET ttl_seconds ==
        IF ttl_env.some /\ ParseU64(ttl_env.v).ok
        THEN ParseU64(ttl_env.v).v
        ELSE DefaultTtlSeconds
  IN [inner |-> collectors, last_refresh |-> instant_now, ttl |-> ttl_seconds]

\* CollectorsCache::is_stale: last_refresh.elapsed() >= ttl
\* The cache turns stale only after the ttl has been exceeded.
is_stale_strict(cache, instant_now) == instant_now - cache.last_refresh > cache.ttl

\* The cache is treated as stale on every check.
is_stale_always(cache, instant_now) == TRUE

is_stale(cache, instant_now) == instant_now - cache.last_refresh >= cache.ttl

\* Collectors::is_initialized: COLLECTORS.get().is_some()
is_initialized(cell) == cell.some

\* The definitions of the offered value are appended to the list of the value
\* the cell already holds.
OnceLockSetAppend(cell, value) ==
  IF cell.some
  THEN [cell |-> Some([cell.v EXCEPT !.inner = @ \o value.inner]), ok |-> FALSE]
  ELSE [cell |-> Some(value), ok |-> TRUE]

\* The cell is overwritten in place when it is already set.
OnceLockSetOverwrite(cell, value) ==
  [cell |-> Some(value), ok |-> TRUE]

\* OnceLock::set: stores the value only when the cell is empty; otherwise the
\* cell keeps its value and the call reports failure.
OnceLockSet(cell, value) ==
  IF cell.some THEN [cell |-> cell, ok |-> FALSE]
  ELSE [cell |-> Some(value), ok |-> TRUE]

\* ----------------------------------------------------------------- inputs
Procs == 1..NumProcs

SrcSpans == <<"s">>
SrcSpansSub == <<"s", "x">>
SrcLambda == <<"l">>
Sources == {SrcSpans, SrcSpansSub, SrcLambda}

OrigTraces == <<"https://o", "/", "v">>
OrigDoubleSlash == <<"http://o:8080", "/", "/", "v", "?r", "#f">>
OrigTracesAlt == <<"http://o:8080", "/", "v", "?r", "#f">>
OrigNoPath == <<"https://o">>
OrigNotUrl == <<"v">>
Origs == {OrigTraces, OrigTracesAlt, OrigDoubleSlash, OrigNoPath, OrigNotUrl}

PrefixEnv == {None, Some(<<"p">>)}
TtlEnv == {None, Some(<<"2">>), Some(<<"1", "0">>), Some(<<"x">>)}

RawA == RawJson(JStr(<<"c1">>), JStr(<<"https://h">>), JAbsent, JStr(<<"s">>))
RawB == RawJson(JStr(<<"c2">>), JStr(<<"https://h", "/", "b">>),
                JStr(<<"sigv4">>), JNull)
RawC == RawJson(JStr(<<"c3">>), JStr(<<"https://h", "/", "b", "?q">>),
                JStr(<<>>), JStr(<<"[", "s">>))
RawD == RawJson(JStr(<<"c2">>), JStr(<<"n", "o">>), JNull, JStr(<<"s", ".*">>))
RawE == RawJson(JStr(<<"c3">>), JStr(<<"https://h", "/">>),
                JStr(<<"x-api-key", "=", "k">>), JStr(<<"s", ".*">>))
RawF == RawJson(JStr(<<"c6">>), JStr(<<"https://h", "/", "b", "/", "#f">>),
                JStr(<<"iam">>), JStr(<<"l">>))
RawNoName == RawJson(JAbsent, JStr(<<"https://h">>), JAbsent, JAbsent)
RawNumAuth == RawJson(JStr(<<"c5">>), JStr(<<"https://h">>), JNum, JAbsent)

Responses ==
  { Response(0, <<Secret(RawA), Secret(RawB)>>),
    Response(1, <<Secret(NotJson), Secret(RawB), BinarySecret, Secret(RawC)>>),
    Response(0, <<Secret(RawD), Secret(RawB)>>),
    Response(0, <<Secret(RawE), Secret(RawF), Secret(RawC)>>),
    Response(1, <<Secret(RawA)>>),
    Response(0, <<Secret(RawNoName), Secret(RawNumAuth)>>),
    Response(1, <<>>),
    Response(0, <<>>),
    CallFailed }

TickSteps == {1, DefaultTtlSeconds - 1}

\* What one behaviour draws its inputs from.  One invocation at a time, with
\* every input:
Sequential ==
  [procs |-> {1}, responses |-> Responses, prefixes |-> PrefixEnv,
   ttls |-> TtlEnv, origs |-> Origs, sources |-> Sources, steps |-> TickSteps]

\* All invocations at once, with the inputs that make two Registries differ:
Concurrent ==
  [procs |-> Procs,
   responses |-> { Response(0, <<Secret(RawA), Secret(RawB)>>),
                   Response(1, <<Secret(NotJson), Secret(RawB), BinarySecret,
                                 Secret(RawC)>>),
                   Response(0, <<>>),
                   CallFailed },
   prefixes |-> {Some(<<"p">>)},
   ttls |-> {Some(<<"2">>)}, origs |-> {OrigTraces, OrigNotUrl},
   sources |-> {SrcLambda, SrcSpans},
   steps |-> {1}]

\* ------------------------------------------------------------------ state
VARIABLES
  mode,         \* which inputs this behaviour draws from (never changes)
  COLLECTORS,   \* static COLLECTORS: OnceLock<Arc<CollectorsCache>>
  now,          \* the monotonic clock read by Instant::now()
  ticks,        \* how often the clock has advanced
  pc,           \* where each invocation stands
  call,         \* the operation an invocation runs and its inputs
  items,        \* init: the local `items` returned by fetch_collectors
  idx,          \* get_signal_endpoints: position of the iterator
  acc,          \* get_signal_endpoints: destinations collected so far
  ret,          \* what the operation returned
  installed     \* every Registry the cell has held, in order

vars == <<mode, COLLECTORS, now, ticks, pc, call, items, idx, acc, ret, installed>>

NoCall ==
  [op |-> "none", path |-> "none", orig |-> <<>>, src |-> <<>>,
   prefix |-> None, response |-> CallFailed, fetched |-> FALSE,
   ttl_env |-> None]
NoRet == [kind |-> "none", v |-> <<>>, err |-> ""]
RetOk(x) == [kind |-> "ok", v |-> x, err |-> ""]
RetErr(e) == [kind |-> "err", v |-> <<>>, err |-> e]
RetPanic(m) == [kind |-> "panic", v |-> <<>>, err |-> m]

Start ==
  /\ COLLECTORS = None
  /\ now = 0
  /\ ticks = 0
  /\ pc = [p \in Procs |-> "idle"]
  /\ call = [p \in Procs |-> NoCall]
  /\ items = [p \in Procs |-> <<>>]
  /\ idx = [p \in Procs |-> 0]
  /\ acc = [p \in Procs |-> <<>>]
  /\ ret = [p \in Procs |-> NoRet]
  /\ installed = <<>>

\* The inputs of this behaviour.
world == IF mode = "sequential" THEN Sequential ELSE Concurrent

Init == mode = "sequential" /\ Start

InitConcurrent == mode = "concurrent" /\ Start

\* The history of installed Registries follows the cell.
Installed(cell) ==
  IF cell.some /\ (installed = <<>> \/ installed[Len(installed)] # cell.v.inner)
  THEN Append(installed, cell.v.inner)
  ELSE installed

\* Time passes.
Tick(d) ==
  /\ ticks < MaxTicks
  /\ now' = now + d
  /\ ticks' = ticks + 1
  /\ UNCHANGED <<mode, COLLECTORS, pc, call, items, idx, acc, ret, installed>>

\* Collectors::init, up to the first await: the cell is read; a fresh cache
\* returns Ok at once, a stale or missing one leads to a fetch.
InitCheck(p) ==
  /\ pc[p] = "idle"
  /\ IF COLLECTORS.some
     THEN IF is_stale(COLLECTORS.v, now)
          THEN /\ pc' = [pc EXCEPT ![p] = "fetch"]
               /\ call' = [call EXCEPT ![p] = [NoCall EXCEPT !.op = "init", !.path = "refresh"]]
               /\ ret' = [ret EXCEPT ![p] = NoRet]
          ELSE /\ pc' = [pc EXCEPT ![p] = "done"]
               /\ call' = [call EXCEPT ![p] = [NoCall EXCEPT !.op = "init", !.path = "fresh"]]
               /\ ret' = [ret EXCEPT ![p] = RetOk(<<>>)]
     ELSE /\ pc' = [pc EXCEPT ![p] = "fetch"]
          /\ call' = [call EXCEPT ![p] = [NoCall EXCEPT !.op = "init", !.path = "initial"]]
          /\ ret' = [ret EXCEPT ![p] = NoRet]
  /\ UNCHANGED <<mode, COLLECTORS, now, ticks, items, idx, acc, installed>>

\* A failed fetch empties the cell.
InitFetchDropsCache(p) ==
  /\ pc[p] = "fetch"
  /\ \E prefix \in world.prefixes, response \in world.responses :
       LET r == fetch_collectors(prefix, response)
       IN /\ prefix.some \/ response = CallFailed
          /\ call' = [call EXCEPT ![p].prefix = prefix, ![p].response = response,
                                  ![p].fetched = TRUE]
          /\ IF r.ok
             THEN /\ items' = [items EXCEPT ![p] = r.v]
                  /\ pc' = [pc EXCEPT ![p] = "set"]
                  /\ ret' = ret
                  /\ COLLECTORS' = COLLECTORS
             ELSE /\ items' = items
                  /\ pc' = [pc EXCEPT ![p] = "done"]
                  /\ ret' = [ret EXCEPT ![p] = RetErr(r.err)]
                  /\ COLLECTORS' = None
  /\ UNCHANGED <<mode, now, ticks, idx, acc, installed>>

\* fetch_collectors(client).await?: an error is returned to the caller and
\* nothing else happens; the collectors are kept in `items` otherwise.  The
\* store is not called when the prefix is unset (recorded as CallFailed).
InitFetch(p) ==
  /\ pc[p] = "fetch"
  /\ \E prefix \in world.prefixes, response \in world.responses :
       LET r == fetch_collectors(prefix, response)
       IN /\ prefix.some \/ response = CallFailed
          /\ call' = [call EXCEPT ![p].prefix = prefix, ![p].response = response,
                                  ![p].fetched = TRUE]
          /\ IF r.ok
             THEN /\ items' = [items EXCEPT ![p] = r.v]
                  /\ pc' = [pc EXCEPT ![p] = "set"]
                  /\ ret' = ret
             ELSE /\ items' = items
                  /\ pc' = [pc EXCEPT ![p] = "done"]
                  /\ ret' = [ret EXCEPT ![p] = RetErr(r.err)]
  /\ UNCHANGED <<mode, COLLECTORS, now, ticks, idx, acc, installed>>

\* The new cache is built and offered to the cell.  On the refresh path the
\* outcome of set is discarded (let _ =); on the initial path a failed set is
\* mapped to an error.
InitSet(p) ==
  /\ pc[p] = "set"
  /\ \E ttl_env \in world.ttls :
       LET new_cache == CollectorsCache_new(items[p], ttl_env, now)
           s == OnceLockSet(COLLECTORS, new_cache)
       IN /\ COLLECTORS' = s.cell
          /\ installed' = Installed(s.cell)
          /\ call' = [call EXCEPT ![p].ttl_env = ttl_env]
          /\ ret' = [ret EXCEPT ![p] =
                       IF call[p].path = "refresh" \/ s.ok
                       THEN RetOk(<<>>)
                       ELSE RetErr("Collectors cache already initialized")]
  /\ pc' = [pc EXCEPT ![p] = "done"]
  /\ UNCHANGED <<mode, now, ticks, items, idx, acc>>

\* Collectors::get_signal_endpoints: COLLECTORS.get().expect(..) panics on an
\* empty cell; otherwise the iterator over cache.inner.items is set up.
ResolveStart(p, original_endpoint, source) ==
  /\ pc[p] = "idle"
  /\ call' = [call EXCEPT ![p] =
                [NoCall EXCEPT !.op = "resolve", !.orig = original_endpoint,
                               !.src = source,
                               !.path = IF COLLECTORS.some THEN "some" ELSE "empty"]]
  /\ IF COLLECTORS.some
     THEN /\ pc' = [pc EXCEPT ![p] = "resolve"]
          /\ idx' = [idx EXCEPT ![p] = 1]
          /\ ret' = [ret EXCEPT ![p] = NoRet]
     ELSE /\ pc' = [pc EXCEPT ![p] = "done"]
          /\ idx' = idx
          /\ ret' = [ret EXCEPT ![p] = RetPanic("Collectors cache not initialized")]
  /\ UNCHANGED <<mode, COLLECTORS, now, ticks, items, acc, installed>>

\* Each destination is written back over the collector it was built from.
ResolveStepStores(p) ==
  /\ pc[p] = "resolve"
  /\ LET registry == COLLECTORS.v.inner
     IN IF idx[p] > Len(registry)
        THEN /\ ret' = [ret EXCEPT ![p] = RetOk(acc[p])]
             /\ pc' = [pc EXCEPT ![p] = "done"]
             /\ UNCHANGED <<idx, acc, COLLECTORS>>
        ELSE LET d == NextDestination(registry[idx[p]], call[p].orig, call[p].src)
             IN IF d.kind = "fail"
                THEN /\ ret' = [ret EXCEPT ![p] = RetErr(d.err)]
                     /\ pc' = [pc EXCEPT ![p] = "done"]
                     /\ UNCHANGED <<idx, acc, COLLECTORS>>
                ELSE /\ idx' = [idx EXCEPT ![p] = idx[p] + 1]
                     /\ acc' = [acc EXCEPT ![p] = acc[p] \o d.v]
                     /\ COLLECTORS' =
                          IF d.kind = "push"
                          THEN [COLLECTORS EXCEPT !.v.inner[idx[p]] = d.v[1]]
                          ELSE COLLECTORS
                     /\ UNCHANGED <<pc, ret>>
  /\ UNCHANGED <<mode, now, ticks, call, items, installed>>

\* One step of .filter(..).map(..).collect::<Result<Vec<_>>>(): at the end of
\* the Registry the collected destinations are returned; before that the next
\* collector is skipped, pushed, or its error ends the call.
ResolveStep(p) ==
  /\ pc[p] = "resolve"
  /\ LET registry == COLLECTORS.v.inner
     IN IF idx[p] > Len(registry)
        THEN /\ ret' = [ret EXCEPT ![p] = RetOk(acc[p])]
             /\ pc' = [pc EXCEPT ![p] = "done"]
             /\ UNCHANGED <<idx, acc>>
        ELSE LET d == NextDestination(registry[idx[p]], call[p].orig, call[p].src)
             IN IF d.kind = "fail"
                THEN /\ ret' = [ret EXCEPT ![p] = RetErr(d.err)]
                     /\ pc' = [pc EXCEPT ![p] = "done"]
                     /\ UNCHANGED <<idx, acc>>
                ELSE /\ idx' = [idx EXCEPT ![p] = idx[p] + 1]
                     /\ acc' = [acc EXCEPT ![p] = acc[p] \o d.v]
                     /\ UNCHANGED <<pc, ret>>
  /\ UNCHANGED <<mode, COLLECTORS, now, ticks, call, items, installed>>

\* The invocation ends; its locals are dropped.
Return(p) ==
  /\ pc[p] = "done"
  /\ pc' = [pc EXCEPT ![p] = "idle"]
  /\ call' = [call EXCEPT ![p] = NoCall]
  /\ items' = [items EXCEPT ![p] = <<>>]
  /\ idx' = [idx EXCEPT ![p] = 0]
  /\ acc' = [acc EXCEPT ![p] = <<>>]
  /\ ret' = [ret EXCEPT ![p] = NoRet]
  /\ UNCHANGED <<mode, COLLECTORS, now, ticks, installed>>

Next ==
  \/ \E d \in world.steps : Tick(d)
  \/ \E p \in world.procs : InitCheck(p)
  \/ \E p \in world.procs : InitFetch(p)
  \/ \E p \in world.procs : InitSet(p)
  \/ \E p \in world.procs, o \in world.origs, s \in world.sources :
       ResolveStart(p, o, s)
  \/ \E p \in world.procs : ResolveStep(p)
  \/ \E p \in world.procs : Return(p)

\* One invocation at a time, every input.
Spec == Init /\ [][Next]_vars

\* Interleaved invocations.
SpecConcurrent == InitConcurrent /\ [][Next]_vars

\* =================================================================== claims
AlreadyInitialized == "Collectors cache already initialized"

\* The fetch of invocation p has run and returned Ok.
FetchSucceeded(p) ==
  /\ call[p].fetched
  /\ ~(pc[p] = "done" /\ ret[p].kind = "err" /\ ret[p].err # AlreadyInitialized)

\* A secret value that deserializes into a Collector Definition.
Usable(secret) ==
  secret.secret_string.some /\ DeserializeCollector(secret.secret_string.v).ok

\* The three reasons for a fetch to fail.
FetchMustFail(prefix, response) ==
  \/ ~prefix.some
  \/ ~response.call_ok
  \/ \A i \in 1..Len(response.secret_values) : ~Usable(response.secret_values[i])

\* The collector is not excluded for the source identifier.
Applies(collector, source) ==
  ~(collector.exclude.some /\ IsMatch(collector.exclude.v, source))

\* The collectors of a Registry that are not excluded, in Registry order.
Applicable(registry, source) ==
  LET Keep(c) == Applies(c, source) IN SelectSeq(registry, Keep)

\* The string is an absolute URL: it starts with scheme and authority.
IsAbsoluteUrl(s) == Len(s) > 0 /\ s[1] \in OriginTokens

\* The Registry a finished or running resolve of p has read.
RegistryOf(p) == COLLECTORS.v.inner

\* p has finished a resolve that found a Registry installed.
Resolved(p) == pc[p] = "done" /\ call[p].op = "resolve" /\ call[p].path = "some"

\* C1: when a Registry is installed and stale and init's fetch succeeds with
\* a definition list R', then after the call the installed Registry is R'.
C1_RefreshReplacesInstalled ==
  [][\A p \in Procs :
       (pc[p] = "set" /\ call[p].path = "refresh" /\ pc'[p] = "done")
         => (COLLECTORS'.some /\ COLLECTORS'.v.inner = items[p])]_vars

\* C2: when init calls race on an empty cache and every fetch succeeds, exactly
\* one fetched Registry is installed and every caller returns success.
C2_ConcurrentInitAllSucceed ==
  \A p \in Procs :
    (pc[p] = "done" /\ call[p].op = "init" /\ call[p].path = "initial"
       /\ FetchSucceeded(p))
      => (ret[p].kind = "ok" /\ Len(installed) = 1)

\* C3: if a Registry is installed and stale and the fetch inside init fails
\* (prefix unset, store call failed, zero usable definitions), the call returns
\* that error and the installed Registry, timestamp and ttl are unchanged.
C3_FailedRefreshKeepsCache ==
  [][\A p \in Procs :
       (pc[p] = "fetch" /\ call[p].path = "refresh" /\ pc'[p] # "fetch"
          /\ FetchMustFail(call'[p].prefix, call'[p].response))
         => /\ pc'[p] = "done"
            /\ ret'[p].kind = "err"
            /\ ret'[p].err = fetch_collectors(call'[p].prefix, call'[p].response).err
            /\ ret'[p].err # ""
            /\ COLLECTORS.some
            /\ COLLECTORS' = COLLECTORS
            /\ installed' = installed]_vars

\* C3 witness: a refresh of a stale cache has just failed and the cache is
\* still installed.
C3_Witness ==
  \E p \in Procs :
    /\ pc[p] = "done" /\ call[p].op = "init" /\ call[p].path = "refresh"
    /\ ret[p].kind = "err"
    /\ FetchMustFail(call[p].prefix, call[p].response)
    /\ COLLECTORS.some /\ is_stale(COLLECTORS.v, now)

\* C4: resolve called when no Registry is installed returns a NotInitialized
\* error value; it does not crash.
C4_ResolveUninitializedReturnsError ==
  \A p \in Procs :
    (pc[p] = "done" /\ call[p].op = "resolve" /\ call[p].path = "empty")
      => ret[p].kind = "err"

\* C5: every resolve computes its whole result from exactly one fully
\* constructed Registry that was installed: the destinations collected so far
\* are those of a prefix of one installed Registry, and the final result is
\* the result on one installed Registry.
C5_ReadersSeeWholeSnapshots ==
  \A p \in Procs :
    /\ pc[p] = "resolve" =>
         \E k \in 1..Len(installed) :
           /\ idx[p] - 1 <= Len(installed[k])
           /\ get_signal_endpoints(SubSeq(installed[k], 1, idx[p] - 1),
                                   call[p].orig, call[p].src) = Ok(acc[p])
    /\ Resolved(p) =>
         \E k \in 1..Len(installed) :
           LET r == get_signal_endpoints(installed[k], call[p].orig, call[p].src)
           IN IF r.ok THEN ret[p] = RetOk(r.v) ELSE ret[p] = RetErr(r.err)

\* C5 witness: a reader is in the middle of the Registry while a refresh is
\* about to offer a different Registry to the cell.
C5_Witness ==
  \E p, q \in Procs :
    /\ p # q
    /\ pc[p] = "resolve" /\ idx[p] = 2 /\ acc[p] # <<>>
    /\ pc[q] = "set" /\ call[q].path = "refresh"
    /\ items[q] # COLLECTORS.v.inner

\* C6: with the prefix set and the store call succeeding, fetch succeeds iff
\* at least one secret value deserializes, and then returns exactly the
\* deserializable values in the order of the response.
C6_FetchKeepsUsableInOrder ==
  \A p \in Procs :
    (call[p].fetched /\ call[p].prefix.some /\ call[p].response.call_ok) =>
      LET usable == SelectSeq(call[p].response.secret_values, Usable)
      IN /\ FetchSucceeded(p) <=> usable # <<>>
         /\ FetchSucceeded(p) =>
              /\ Len(items[p]) = Len(usable)
              /\ \A i \in 1..Len(usable) :
                   items[p][i] = DeserializeCollector(usable[i].secret_string.v).v

\* C6 witness: a fetch with per-item errors, an unparseable value and a binary
\* secret has returned the two definitions that parse.
C6_Witness ==
  \E p \in Procs :
    /\ FetchSucceeded(p) /\ call[p].response.errors > 0
    /\ Len(items[p]) = 2
    /\ Len(call[p].response.secret_values) = 4

\* C7: a successful resolve returns one destination for each collector that
\* is not excluded, in Registry order, with name and auth unchanged; if every
\* collector is excluded the result is the empty sequence and not an error.
C7_FanOutIsOrderedFilter ==
  \A p \in Procs :
    Resolved(p) =>
      LET kept == Applicable(RegistryOf(p), call[p].src)
      IN /\ ret[p].kind = "ok" =>
              /\ Len(ret[p].v) = Len(kept)
              /\ \A i \in 1..Len(kept) :
                   /\ ret[p].v[i].name = kept[i].name
                   /\ ret[p].v[i].auth = kept[i].auth
         /\ kept = <<>> => ret[p] = RetOk(<<>>)

\* C7 witness: a resolve has succeeded with some collectors excluded and two
\* collectors of the same name kept.
C7_Witness ==
  \E p \in Procs :
    /\ Resolved(p) /\ ret[p].kind = "ok"
    /\ Len(ret[p].v) = 2 /\ Len(RegistryOf(p)) = 3
    /\ ret[p].v[1].name = ret[p].v[2].name

\* C8 as stated: whenever the installed Registry contains a definition whose
\* endpoint is not an absolute URL, or the original endpoint is not one,
\* resolve returns an error.
C8_MalformedAlwaysFails ==
  \A p \in Procs :
    (Resolved(p)
       /\ (\/ \E i \in 1..Len(RegistryOf(p)) : ~IsAbsoluteUrl(RegistryOf(p)[i].endpoint)
           \/ ~IsAbsoluteUrl(call[p].orig)))
      => ret[p].kind = "err"

\* C8 amended: whenever a definition that is not excluded for the source has
\* an endpoint that is not an absolute URL, or the original endpoint is not one
\* and some definition is not excluded, resolve returns an error and no
\* destinations; a successful resolve has a destination for every definition
\* that is not excluded.
C8_MalformedAppliedFails ==
  \A p \in Procs :
    Resolved(p) =>
      LET kept == Applicable(RegistryOf(p), call[p].src)
          malformed ==
            \/ \E i \in 1..Len(kept) : ~IsAbsoluteUrl(kept[i].endpoint)
            \/ (~IsAbsoluteUrl(call[p].orig) /\ kept # <<>>)
      IN /\ malformed => (ret[p].kind = "err" /\ ret[p].v = <<>>)
         /\ ret[p].kind = "ok" => (~malformed /\ Len(ret[p].v) = Len(kept))

\* C8 witness: resolve has failed on a Registry whose malformed definition is
\* not excluded and is followed by a well-formed one.
C8_Witness ==
  \E p \in Procs :
    /\ Resolved(p) /\ ret[p].kind = "err"
    /\ IsAbsoluteUrl(call[p].orig)
    /\ Len(RegistryOf(p)) = 2
    /\ ~IsAbsoluteUrl(RegistryOf(p)[1].endpoint)
    /\ Applies(RegistryOf(p)[1], call[p].src)
    /\ IsAbsoluteUrl(RegistryOf(p)[2].endpoint)

\* The string with "/" appended unless it already ends with it.
WithTrailingSlash(s) == IF EndsWith(s, "/") THEN s ELSE s \o <<"/">>

\* The path of an original endpoint, as written: what follows the origin, up
\* to the query or fragment.
WrittenPath(s) == SubSeq(s, 2, FirstIn(s, QueryTokens \cup FragmentTokens, 2) - 1)

\* The string without its leading slashes.
RECURSIVE StripLeadingSlashes(_)
StripLeadingSlashes(s) ==
  IF s # <<>> /\ Head(s) = "/" THEN StripLeadingSlashes(Tail(s)) ELSE s

\* Where the query or fragment of a URL string starts (Len + 1 if none).
AfterPath(s) == FirstIn(s, QueryTokens \cup FragmentTokens, 1)

HasInvalidExclude(raw) ==
  /\ raw.valid
  /\ raw.name.t = "str" /\ raw.endpoint.t = "str"
  /\ raw.auth.t \in {"absent", "null", "str"}
  /\ raw.exclude.t = "str"
  /\ \E i \in 1..Len(raw.exclude.v) : raw.exclude.v[i] = "["

\* The raw definitions the store can return.
RawDefinitions ==
  UNION { { r.secret_values[i].secret_string.v :
              i \in { n \in 1..Len(r.secret_values) :
                        r.secret_values[n].secret_string.some } } :
          r \in world.responses }

\* C10: a raw definition whose exclude pattern does not compile is loaded (not
\* dropped from the batch), is excluded for no source identifier, and appears in
\* the result of every successful resolve.
C10_InvalidExcludeExcludesNothing ==
  \A p \in Procs :
    /\ (call[p].fetched /\ call[p].prefix.some /\ call[p].response.call_ok) =>
         \A i \in 1..Len(call[p].response.secret_values) :
           LET secret == call[p].response.secret_values[i]
           IN (secret.secret_string.some /\ HasInvalidExclude(secret.secret_string.v)) =>
                /\ FetchSucceeded(p)
                /\ \E j \in 1..Len(items[p]) :
                     /\ items[p][j].name = secret.secret_string.v.name.v
                     /\ items[p][j].endpoint = secret.secret_string.v.endpoint.v
                     /\ \A s \in Sources : ~should_exclude(items[p][j], s)
    /\ (Resolved(p) /\ ret[p].kind = "ok") =>
         \A i \in 1..Len(RegistryOf(p)) :
           (\E raw \in RawDefinitions :
              /\ HasInvalidExclude(raw)
              /\ raw.name.v = RegistryOf(p)[i].name
              /\ raw.endpoint.v = RegistryOf(p)[i].endpoint)
             => \E j \in 1..Len(ret[p].v) :
                  /\ ret[p].v[j].name = RegistryOf(p)[i].name
                  /\ ret[p].v[j].auth = RegistryOf(p)[i].auth

\* C10 witness: the definition with the pattern that does not compile is in
\* the result of a resolve for a source its pattern's letters would match.
C10_Witness ==
  \E p \in Procs :
    /\ Resolved(p) /\ ret[p].kind = "ok" /\ call[p].src = SrcSpans
    /\ \E i \in 1..Len(RegistryOf(p)) :
         /\ RegistryOf(p)[i].endpoint = RawC.endpoint.v
         /\ \E j \in 1..Len(ret[p].v) : ret[p].v[j].auth = RegistryOf(p)[i].auth
                                        /\ ret[p].v[j].name = <<"c3">>

\* The ttl that COLLECTORS_CACHE_TTL_SECONDS configures: its decimal value, or
\* the default when the variable is unset or is not a number.
Digits == {"0", "1", "2", "3", "4", "5", "6", "7", "8", "9"}
RECURSIVE Pow10(_)
Pow10(n) == IF n = 0 THEN 1 ELSE 10 * Pow10(n - 1)
RECURSIVE PlaceSum(_, _)
PlaceSum(ds, i) ==
  IF i > Len(ds) THEN 0
  ELSE DigitValue(ds[i]) * Pow10(Len(ds) - i) + PlaceSum(ds, i + 1)
ConfiguredTtl(env) ==
  IF env.some /\ Len(env.v) > 0 /\ (\A i \in 1..Len(env.v) : env.v[i] \in Digits)
  THEN PlaceSum(env.v, 1)
  ELSE DefaultTtlSeconds

\* p starts an init call while a cache is installed.
ChecksInstalled(p) ==
  pc[p] = "idle" /\ call'[p].op = "init" /\ is_initialized(COLLECTORS)

\* C11: a cache constructed at t0 carries the configured ttl (300 when the
\* setting is unset or not a number) and, for ttl >= 1, is treated as not stale
\* at every t with t - t0 < ttl and as stale at every t with t - t0 >= ttl.
C11_StaleExactlyAtTtl ==
  [][\A p \in Procs :
       /\ (pc[p] = "set" /\ pc'[p] = "done" /\ ~is_initialized(COLLECTORS))
            => /\ COLLECTORS'.v.last_refresh = now
               /\ COLLECTORS'.v.ttl = ConfiguredTtl(call'[p].ttl_env)
               /\ ~is_stale(COLLECTORS'.v, now)
       /\ (ChecksInstalled(p) /\ COLLECTORS.v.ttl >= 1)
            => /\ (now - COLLECTORS.v.last_refresh < COLLECTORS.v.ttl)
                    => call'[p].path = "fresh"
               /\ (now - COLLECTORS.v.last_refresh >= COLLECTORS.v.ttl)
                    => call'[p].path = "refresh"]_vars

\* A cache with a configured ttl of 2 was found stale exactly 2 seconds after
\* its construction, and the default ttl has been in use as well.
C11_Witness ==
  \E p \in Procs :
    /\ pc[p] = "fetch" /\ call[p].path = "refresh"
    /\ COLLECTORS.v.ttl = 2
    /\ now - COLLECTORS.v.last_refresh = COLLECTORS.v.ttl

\* C12: when a Registry is installed and not stale, init returns Ok at once,
\* without a fetch, and the Registry, its timestamp and its ttl stay as they are.
C12_FreshInitIsNoOp ==
  [][\A p \in Procs :
       (ChecksInstalled(p)
          /\ now - COLLECTORS.v.last_refresh < COLLECTORS.v.ttl)
         => /\ pc'[p] = "done"
            /\ ret'[p] = RetOk(<<>>)
            /\ ~call'[p].fetched
            /\ items'[p] = <<>>
            /\ COLLECTORS' = COLLECTORS
            /\ installed' = installed]_vars

\* An init call returned Ok on a fresh cache some time after its construction.
C12_Witness ==
  \E p \in Procs :
    /\ pc[p] = "done" /\ call[p].op = "init" /\ call[p].path = "fresh"
    /\ ret[p].kind = "ok" /\ ~call[p].fetched
    /\ is_initialized(COLLECTORS)
    /\ now > COLLECTORS.v.last_refresh
    /\ now - COLLECTORS.v.last_refresh < COLLECTORS.v.ttl

\* C13: auth omitted or null parses to an absent value, a string (the empty
\* one included) to that very string, and every resolved destination carries
\* the auth of the definition it came from.
C13_AuthCarriedOpaquely ==
  \A p \in Procs :
    /\ FetchSucceeded(p) =>
         LET usable == SelectSeq(call[p].response.secret_values, Usable)
         IN \A i \in 1..Len(items[p]) :
              i <= Len(usable) =>
                LET raw == usable[i].secret_string.v
                IN /\ raw.auth.t \in {"absent", "null"} => items[p][i].auth = None
                   /\ raw.auth.t = "str" => items[p][i].auth = Some(raw.auth.v)
    /\ (Resolved(p) /\ ret[p].kind = "ok") =>
         LET kept == Applicable(RegistryOf(p), call[p].src)
         IN \A i \in 1..Len(ret[p].v) :
              i <= Len(kept) => ret[p].v[i].auth = kept[i].auth

\* A resolve has returned destinations with an absent auth, a present but
\* empty auth and a header=value auth.
C13_Witness ==
  \E p \in Procs :
    /\ Resolved(p) /\ ret[p].kind = "ok"
    /\ \E i, j \in 1..Len(ret[p].v) :
         /\ ret[p].v[i].auth = Some(<<>>)
         /\ ret[p].v[j].auth \in {None, Some(<<"sigv4">>), Some(<<"x-api-key", "=", "k">>)}

\* C14: an init call that fetched successfully at time t, on the initial path
\* or on the refresh path, leaves a cache that is not stale at t, so that no
\* init call before t + ttl fetches again.
C14_SuccessfulLoadLeavesFreshCache ==
  [][\A p \in Procs :
       (pc[p] = "set" /\ pc'[p] = "done" /\ ret'[p].kind = "ok")
         => /\ is_initialized(COLLECTORS')
            /\ COLLECTORS'.v.ttl >= 1
                 => now - COLLECTORS'.v.last_refresh < COLLECTORS'.v.ttl]_vars

\* C15: when init calls interleave on an installed, stale cache and their
\* fetches succeed, no caller returns an error and, once they have returned,
\* the installed Registry is one of the newly fetched ones.
C15_ConcurrentRefreshInstallsOne ==
  LET Refreshed(p) ==
        /\ pc[p] = "done" /\ call[p].op = "init" /\ call[p].path = "refresh"
        /\ FetchSucceeded(p)
  IN \A p, q \in Procs :
       (p # q /\ Refreshed(p) /\ Refreshed(q)
          /\ \A r \in Procs : call[r].op = "init" => Refreshed(r))
         => /\ ret[p].kind = "ok"
            /\ \E r \in Procs : Refreshed(r) /\ COLLECTORS.v.inner = items[r]

NotInitialized == "Collectors cache not initialized"

\* C16: when no Registry is installed and the fetch inside init fails, the call
\* returns the error and the cache stays uninitialized; on an uninitialized
\* cache resolve reports not-initialized, init performs a fetch, and a fetch
\* that succeeds is installed.
C16_FailedInitialLoadRetries ==
  [][\A p \in Procs :
       ~is_initialized(COLLECTORS) =>
         /\ (pc[p] = "fetch" /\ pc'[p] # "fetch"
               /\ FetchMustFail(call'[p].prefix, call'[p].response))
              => /\ pc'[p] = "done"
                 /\ ret'[p].kind = "err" /\ ret'[p].err # AlreadyInitialized
                 /\ ~is_initialized(COLLECTORS')
                 /\ installed' = <<>>
         /\ (pc[p] = "idle" /\ call'[p].op = "resolve")
              => /\ pc'[p] = "done"
                 /\ ret'[p].kind # "ok" /\ ret'[p].err = NotInitialized
         /\ (pc[p] = "idle" /\ call'[p].op = "init")
              => pc'[p] = "fetch" /\ call'[p].path = "initial"
         /\ (pc[p] = "set" /\ pc'[p] = "done")
              => /\ ret'[p].kind = "ok"
                 /\ is_initialized(COLLECTORS')
                 /\ COLLECTORS'.v.inner = items[p]]_vars

\* An initial load has failed for want of a usable definition and nothing is
\* installed.
C16_Witness ==
  \E p \in Procs :
    /\ pc[p] = "done" /\ call[p].op = "init" /\ call[p].path = "initial"
    /\ call[p].fetched /\ call[p].prefix.some /\ call[p].response.call_ok
    /\ ret[p].kind = "err"
    /\ ~is_initialized(COLLECTORS) /\ installed = <<>>

\* The path of an absolute URL; an absent path is the root path.
PathOf(s) == IF WrittenPath(s) = <<>> THEN <<"/">> ELSE WrittenPath(s)

\* Two absolute URLs with the same path.
SamePath(s, t) == IsAbsoluteUrl(s) /\ IsAbsoluteUrl(t) /\ PathOf(s) = PathOf(t)

\* The query of a URL.
QueryOf(s) == LET IsQuery(x) == x \in QueryTokens IN SelectSeq(s, IsQuery)

\* C17: the destination endpoint is the same for every original endpoint
\* with the same path, whatever its scheme, host, port, query and fragment,
\* and it keeps scheme, host, port and query of the collector's base endpoint.
C17_OnlyOriginalPathMatters ==
  \A p \in Procs :
    (Resolved(p) /\ ret[p].kind = "ok") =>
      LET kept == Applicable(RegistryOf(p), call[p].src)
      IN \A i \in 1..Len(ret[p].v) :
           i <= Len(kept) =>
             /\ \A other \in Origs :
                  SamePath(call[p].orig, other) =>
                    construct_signal_endpoint(kept[i], other)
                      = Ok(ret[p].v[i].endpoint)
             /\ ret[p].v[i].endpoint[1] = kept[i].endpoint[1]
             /\ QueryOf(ret[p].v[i].endpoint) = QueryOf(kept[i].endpoint)

\* A resolve for an original endpoint with another origin, a query and a
\* fragment has produced the destination that the plain original endpoint
\* with the same path produces, on a base endpoint that has a query.
C17_Witness ==
  \E p \in Procs :
    /\ Resolved(p) /\ ret[p].kind = "ok"
    /\ call[p].orig = OrigTracesAlt
    /\ SamePath(OrigTracesAlt, OrigTraces)
    /\ \E i \in 1..Len(ret[p].v) :
         ret[p].v[i].endpoint = <<"https://h", "/", "b", "/", "v", "?q">>

\* C18: no step of init (on any path), of resolve or of anything else changes
\* the definition list of a Registry that has been constructed and installed;
\* a refresh builds its Registry apart from it, so the Registry a reader holds
\* has the same contents after the refresh as before.
C18_RegistryImmutable ==
  [][is_initialized(COLLECTORS) =>
       /\ is_initialized(COLLECTORS')
       /\ COLLECTORS'.v.inner = COLLECTORS.v.inner
       /\ \A p \in Procs :
            (pc[p] = "set" /\ pc'[p] = "done") =>
              /\ items'[p] = items[p]
              /\ installed' = installed]_vars

\* A refresh that fetched another definition list has completed while a
\* reader was in the middle of the Registry.
C18_Witness ==
  \E p, q \in Procs :
    /\ p # q
    /\ pc[q] = "resolve" /\ idx[q] = 2 /\ acc[q] # <<>>
    /\ pc[p] = "done" /\ call[p].op = "init" /\ call[p].path = "refresh"
    /\ ret[p].kind = "ok"
    /\ items[p] # COLLECTORS.v.inner

\* The step is a step of a resolve call of p.
ResolveStepOf(p) ==
  \/ pc[p] = "idle" /\ call'[p].op = "resolve"
  \/ pc[p] = "resolve" /\ (idx'[p] # idx[p] \/ pc'[p] # "resolve")

\* C19: a resolve call, successful or not, leaves the installed Registry, its
\* timestamp and its ttl unchanged and stores no destination; its result is
\* determined by the original endpoint, the source identifier and the
\* installed Registry, so two calls with the same inputs return equal results.
C19_ResolveReadOnlyDeterministic ==
  /\ [](\A p, q \in Procs :
          (Resolved(p) /\ Resolved(q) /\ call[p].orig = call[q].orig
             /\ call[p].src = call[q].src)
            => ret[p] = ret[q])
  /\ [][\A p \in Procs :
          ResolveStepOf(p) =>
            /\ COLLECTORS' = COLLECTORS
            /\ installed' = installed
            /\ items' = items
            /\ \A q \in Procs \ {p} : acc'[q] = acc[q] /\ ret'[q] = ret[q]]_vars

\* Two resolve calls with the same inputs have returned the same non-empty
\* list of destinations.
C19_Witness ==
  \E p, q \in Procs :
    /\ p # q /\ Resolved(p) /\ Resolved(q)
    /\ call[p].orig = call[q].orig /\ call[p].src = call[q].src
    /\ ret[p].kind = "ok" /\ ret[p].v # <<>> /\ ret[q] = ret[p]

\* C20: an installed Registry always has at least one definition, and once a
\* Registry is installed no init call, successful or failing, and no resolve
\* call brings the cache back to the uninitialized state.
C20_InitializationMonotonic ==
  /\ [](is_initialized(COLLECTORS) => Len(COLLECTORS.v.inner) >= 1)
  /\ [](\A i \in 1..Len(installed) : Len(installed[i]) >= 1)
  /\ [][is_initialized(COLLECTORS) => is_initialized(COLLECTORS')]_vars

\* With a Registry installed, one refresh has failed on an empty batch and
\* another on a failed store call.
C20_Witness ==
  \E p, q \in Procs :
    /\ is_initialized(COLLECTORS)
    /\ pc[p] = "done" /\ call[p].path = "refresh" /\ ret[p].kind = "err"
    /\ call[p].response = Response(0, <<>>)
    /\ pc[q] = "done" /\ call[q].path = "refresh" /\ ret[q].kind = "err"
    /\ call[q].response = CallFailed

====
